---- MODULE Spec2Model ----
(***************************************************************************)
(* Model of the medapp seed-data generators (src/generators): five         *)
(* command-line programs (patients, medecins, radiologues, ordonnances,    *)
(* reports) that validate a requested count, connect to MongoDB, load the  *)
(* keys of prerequisite collections (ordonnances, reports), synthesize     *)
(* documents in batches of 100 and insert each batch with insert_many.     *)
(*                                                                         *)
(* One behaviour is the life of one command line (entity, number) that is  *)
(* invoked once or twice against one database.  Actions are cut at the     *)
(* await points of the code: the synchronous code between two awaits is    *)
(* one step.  A document is modelled by the fields that carry keys (the    *)
(* foreign keys, "_id" when present) or credentials; a batch by its        *)
(* length and the set of distinct documents in it.  Dates are modelled by  *)
(* the synthesizer specification SpecSynth.                                *)
(***************************************************************************)
EXTENDS Integers, Sequences, FiniteSets, TLC

VARIABLES
    entity,             \* which generator binary this command line runs
    number,             \* the --number argument as typed on the command line
    run,                \* 1 in the first invocation of the command, 2 in the second
    pc,                 \* position of the current invocation
    count,              \* args.number / the count parameter of generate_*
    scan_idx,           \* cache_ids: how many prerequisite collections scanned
    medecin_ids,        \* cache_ids: keys read from "doctors"
    patient_ids,        \* cache_ids: keys read from "patients"
    radiologue_ids,     \* cache_ids: keys read from "radiologues"
    num_batches,        \* generate_*: number of batches
    batch_idx,          \* generate_*: loop variable
    current_batch_size, \* generate_*: size of the batch being built
    batch,              \* generate_*: the batch built for insert_many
    pb_pos,             \* position of the progress bar
    exit_status,        \* process exit status ("0", "1", "2", "101"), NoStatus while running
    failed_stage,       \* stage named by the error, "none" without error
    db,                 \* storage: collection name -> set of keys (_id)
    next_oid,           \* storage: next fresh ObjectId
    io,                 \* storage calls of the current invocation, oldest first
    now,                \* SpecSynth: the clock read by the synthesizer
    rec                 \* SpecSynth: the record last synthesized

vars == <<entity, number, run, pc, count, scan_idx, medecin_ids, patient_ids,
          radiologue_ids, num_batches, batch_idx, current_batch_size, batch,
          pb_pos, exit_status, failed_stage, db, next_oid, io, now, rec>>

----------------------------------------------------------------------------
(* Bounds of the model *)

MaxBatches == 2      \* requested counts reach MaxBatches full batches + 1
MaxInitDocs == 1     \* documents a collection may hold before the first run
MaxPartial == 1      \* documents by which an insert_many may miss all-or-nothing
MaxDistinct == 1     \* distinct documents told apart within one batch
MaxPool == 2         \* SpecSynth: keys in a reference pool
MaxNow == 1          \* SpecSynth: latest clock reading, in ticks
TicksPerDay == 2     \* clock resolution: ticks in one day
MaxOther == 1        \* SpecConc: documents the other generator inserts
UsizeBits == 16      \* width of the machine word (usize), scaled down

(* Program constants *)

batch_size == 100

----------------------------------------------------------------------------
(* usize arithmetic *)

UsizeMod == 2 ^ UsizeBits

usize_add(a, b) == (a + b) % UsizeMod

usize_sub(a, b) == (a - b + UsizeMod) % UsizeMod

usize_mul(a, b) == (a * b) % UsizeMod

Min(a, b) == IF a <= b THEN a ELSE b

----------------------------------------------------------------------------
(* The five generators *)

Entities == {"patients", "medecins", "radiologues", "ordonnances", "reports"}

Collections == {"patients", "doctors", "radiologues", "ordonnances", "reports"}

\* a bug: the prescriptions go to the collection of the patients
TargetCollection_patients(e) ==
    CASE e = "patients"    -> "patients"
      [] e = "medecins"    -> "doctors"
      [] e = "radiologues" -> "radiologues"
      [] e = "ordonnances" -> "patients"
      [] e = "reports"     -> "reports"

\* db.collection::<Document>(...) of each generate_* function
TargetCollection(e) ==
    CASE e = "patients"    -> "patients"
      [] e = "medecins"    -> "doctors"
      [] e = "radiologues" -> "radiologues"
      [] e = "ordonnances" -> "ordonnances"
      [] e = "reports"     -> "reports"

\* a bug: the doctors are read again once the other pools are loaded
ScanOrder_rescan(e) ==
    CASE e = "ordonnances" -> <<"doctors", "patients", "doctors">>
      [] e = "reports"     -> <<"patients", "radiologues", "doctors", "doctors">>
      [] OTHER             -> <<>>

\* the collections cache_ids scans, in the order it scans them
ScanOrder(e) ==
    CASE e = "ordonnances" -> <<"doctors", "patients">>
      [] e = "reports"     -> <<"patients", "radiologues", "doctors">>
      [] OTHER             -> <<>>

\* a bug: generate_* goes from the connection straight to the batch loop
HasDeps_never(e) == FALSE

HasDeps(e) == Len(ScanOrder(e)) > 0

SeqRange(s) == {s[i] : i \in 1..Len(s)}

----------------------------------------------------------------------------
(* chrono: instants and durations are counted in ticks *)

Duration_days(d) == d * TicksPerDay

num_days(dur) == dur \div TicksPerDay

\* DateTime::to_rfc3339: the calendar day and the time of day, written apart
to_rfc3339(t) == [date |-> t \div TicksPerDay, time |-> t % TicksPerDay]

\* the instant an RFC 3339 string denotes
parse_from_rfc3339(s) == s.date * TicksPerDay + s.time

\* gen_range(0..n): the values the generator can return
gen_range(lo, hi) == lo..(hi - 1)

\* the look-back windows, in days
OrdonnanceWindow == 365
ReportWindow == 180
PatientWindow == 365 * 2
DoctorWindow == 365 * 5
RadiologueWindow == 365 * 5

\* the draws gen_range offers for a date in a window of w days read at t
DayDraws(t, w) == gen_range(0, num_days(t - (t - Duration_days(w))))

\* a bug: the offset is added to now, not to the start of the window
random_date_from_now(t, w, random_days) ==
    to_rfc3339(t + Duration_days(random_days))

\* let random_days = ...; (start + Duration::days(random_days)).to_rfc3339()
random_date(t, w, random_days) ==
    to_rfc3339((t - Duration_days(w)) + Duration_days(random_days))

----------------------------------------------------------------------------
(* Synthesizers.  r is the record of the random draws of one call. *)

\* slice.choose(&mut rng).unwrap(): the element at a drawn index
choose(ids, i) == ids[i]

IndexDraws(ids) == 1..Len(ids)

hash_password(password) == [bcrypt |-> password]

generate_ordonnance(m_ids, p_ids, t, r) ==
    [doctor_id  |-> choose(m_ids, r.doctor),
     patient_id |-> choose(p_ids, r.patient),
     date       |-> random_date(t, OrdonnanceWindow, r.days)]

\* a bug: the doctor is drawn from the patients
generate_report_swapped(p_ids, r_ids, m_ids, t, r) ==
    [patient_id     |-> choose(p_ids, r.patient),
     radiologist_id |-> choose(r_ids, r.radiologist),
     doctor_id      |-> choose(p_ids, r.patient),
     exam_date      |-> random_date(t, ReportWindow, r.days)]

generate_report(p_ids, r_ids, m_ids, t, r) ==
    [patient_id     |-> choose(p_ids, r.patient),
     radiologist_id |-> choose(r_ids, r.radiologist),
     doctor_id      |-> choose(m_ids, r.doctor),
     exam_date      |-> random_date(t, ReportWindow, r.days)]

generate_patient(t, r) ==
    [dateInscription |-> random_date(t, PatientWindow, r.days),
     password        |-> hash_password("password")]

generate_doctor(t, r) ==
    [dateInscription |-> random_date(t, DoctorWindow, r.days),
     password        |-> hash_password("password")]

generate_radiologue(t, r) ==
    [dateInscription |-> random_date(t, RadiologueWindow, r.days),
     password        |-> hash_password("password")]

\* the window of the date field of each entity
Window(e) ==
    CASE e = "patients"    -> PatientWindow
      [] e = "medecins"    -> DoctorWindow
      [] e = "radiologues" -> RadiologueWindow
      [] e = "ordonnances" -> OrdonnanceWindow
      [] e = "reports"     -> ReportWindow

\* one synthesis call of generator e
Synthesize(e, m_ids, p_ids, r_ids, t, r) ==
    CASE e = "patients"    -> generate_patient(t, r)
      [] e = "medecins"    -> generate_doctor(t, r)
      [] e = "radiologues" -> generate_radiologue(t, r)
      [] e = "ordonnances" -> generate_ordonnance(m_ids, p_ids, t, r)
      [] e = "reports"     -> generate_report(p_ids, r_ids, m_ids, t, r)

\* the random draws one synthesis call of generator e can make
Draws(e, m_ids, p_ids, r_ids, days) ==
    CASE e = "ordonnances" ->
            [doctor : IndexDraws(m_ids), patient : IndexDraws(p_ids), days : days]
      [] e = "reports" ->
            [patient : IndexDraws(p_ids), radiologist : IndexDraws(r_ids),
             doctor : IndexDraws(m_ids), days : days]
      [] OTHER -> [days : days]

\* a bug: the generator numbers its documents itself
ToDocument_with_id(e, x) ==
    CASE e = "ordonnances" ->
            [doctor_id |-> x.doctor_id, patient_id |-> x.patient_id, _id |-> 1]
      [] e = "reports" ->
            [patient_id |-> x.patient_id, radiologist_id |-> x.radiologist_id,
             doctor_id |-> x.doctor_id, _id |-> 1]
      [] OTHER -> [password |-> x.password, _id |-> 1]

\* the doc! { ... } pushed on the batch: the key and credential fields of the
\* record; the generators put no "_id" in it
ToDocument(e, x) ==
    CASE e = "ordonnances" ->
            [doctor_id |-> x.doctor_id, patient_id |-> x.patient_id]
      [] e = "reports" ->
            [patient_id |-> x.patient_id, radiologist_id |-> x.radiologist_id,
             doctor_id |-> x.doctor_id]
      [] OTHER -> [password |-> x.password]

\* the field names of the doc! { ... } literal each generator pushes (reports:
\* with the "analysis" it inserts when there is one)
DocumentFields(e) ==
    CASE e = "patients" ->
            {"nom", "prenom", "email", "telephone", "adresse", "dateNaissance",
             "groupeSanguin", "numeroSecuriteSociale", "antecedentsMedicaux",
             "allergies", "dateInscription", "password"}
      [] e = "medecins" ->
            {"nom", "prenom", "email", "telephone", "adresse", "specialite",
             "dateInscription", "numeroOrdre", "password"}
      [] e = "radiologues" ->
            {"nom", "prenom", "email", "telephone", "adresse",
             "specialiteRadiologie", "equipements", "dateInscription",
             "numeroOrdre", "password"}
      [] e = "ordonnances" ->
            {"doctor_id", "patient_id", "patient_name", "doctor_name", "date",
             "medications", "instructions", "diagnosis", "signature"}
      [] e = "reports" ->
            {"title", "content", "patient_id", "radiologist_id", "doctor_id",
             "exam_type", "body_part", "exam_date", "conclusion", "image_path",
             "tags", "analysis"}

\* create_indexes: the IndexModel of every create_indexes call, with the
\* collection it is called on
IndexModels ==
    {[collection |-> "patients",    key |-> "email",                 unique |-> TRUE],
     [collection |-> "patients",    key |-> "numeroSecuriteSociale", unique |-> TRUE],
     [collection |-> "medecins",    key |-> "email",                 unique |-> TRUE],
     [collection |-> "medecins",    key |-> "numeroOrdre",           unique |-> TRUE],
     [collection |-> "radiologues", key |-> "email",                 unique |-> TRUE],
     [collection |-> "radiologues", key |-> "numeroOrdre",           unique |-> TRUE],
     [collection |-> "reports",     key |-> "patient_id",            unique |-> FALSE],
     [collection |-> "reports",     key |-> "radiologue_id",         unique |-> FALSE],
     [collection |-> "reports",     key |-> "medecin_id",            unique |-> FALSE],
     [collection |-> "ordonnances", key |-> "patient_id",            unique |-> FALSE],
     [collection |-> "ordonnances", key |-> "medecin_id",            unique |-> FALSE]}

----------------------------------------------------------------------------
(* Storage: the MongoDB database "medapp" *)

NoStatus == "running"

NoRec == [none |-> TRUE]

EmptyBatch == [len |-> 0, docs |-> {}]

\* the keys the documents of a batch carry themselves
SuppliedIds(b) == {d["_id"] : d \in {x \in b.docs : "_id" \in DOMAIN x}}

\* the keys insert_many gives to the first n documents of batch b: a
\* document without "_id" gets a fresh ObjectId
AssignedIds(b, n, oid) ==
    IF SuppliedIds(b) = {} THEN oid..(oid + n - 1) ELSE SuppliedIds(b)

\* a supplied key that is already in the collection is a duplicate-key error
DuplicateKey(b, coll) == SuppliedIds(b) \cap db[coll] # {}

IoEntry(op, coll, b, ok, ids) ==
    [op |-> op, coll |-> coll, len |-> b.len, ok |-> ok, ids |-> ids]

\* the bulk inserts among the storage calls of the current invocation
Inserts == SelectSeq(io, LAMBDA e : e.op = "insert_many")

RECURSIVE SumLen(_)
SumLen(s) == IF s = <<>> THEN 0 ELSE s[1].len + SumLen(Tail(s))

RECURSIVE SumInserted(_)
SumInserted(s) ==
    IF s = <<>> THEN 0 ELSE Cardinality(s[1].ids) + SumInserted(Tail(s))

\* a Vec of the keys of a collection, in the order the cursor returns them
RECURSIVE CursorOrder(_)
CursorOrder(S) ==
    IF S = {} THEN <<>>
    ELSE LET k == CHOOSE x \in S : \A y \in S : x <= y
         IN  <<k>> \o CursorOrder(S \ {k})

----------------------------------------------------------------------------
(* The command line and the database before the first invocation *)

Numbers ==
    {-1} \cup {n \in {k * batch_size + d : k \in 0..MaxBatches, d \in {-1, 0, 1}} :
                  n >= 0}

CollectionIndex(c) ==
    CASE c = "patients"    -> 0
      [] c = "doctors"     -> 1
      [] c = "radiologues" -> 2
      [] c = "ordonnances" -> 3
      [] c = "reports"     -> 4

\* the collections generator e reads or writes
Relevant(e) == {TargetCollection(e)} \cup SeqRange(ScanOrder(e))

\* databases before the first invocation of generator e: the target
\* collection holds MaxInitDocs documents, each prerequisite collection is
\* empty or holds MaxInitDocs documents, every document under its own key
InitDbs(e) ==
    {[c \in Collections |->
        (CollectionIndex(c) * MaxInitDocs + 1)..(CollectionIndex(c) * MaxInitDocs + size[c])] :
     size \in {f \in [Collections -> {0, MaxInitDocs}] :
                  /\ \A c \in Collections \ Relevant(e) : f[c] = 0
                  /\ f[TargetCollection(e)] = MaxInitDocs}}

FirstFreshOid == Cardinality(Collections) * MaxInitDocs + 1

InitLocals ==
    /\ count = 0
    /\ scan_idx = 0
    /\ medecin_ids = <<>>
    /\ patient_ids = <<>>
    /\ radiologue_ids = <<>>
    /\ num_batches = 0
    /\ batch_idx = 0
    /\ current_batch_size = 0
    /\ batch = EmptyBatch
    /\ pb_pos = 0
    /\ exit_status = NoStatus
    /\ failed_stage = "none"

Init ==
    /\ entity \in Entities
    /\ number \in Numbers
    /\ run = 1
    /\ pc = "main"
    /\ InitLocals
    /\ db \in InitDbs(entity)
    /\ next_oid = FirstFreshOid
    /\ io = <<>>
    /\ now = 0
    /\ rec = NoRec

----------------------------------------------------------------------------
(* One invocation *)

\* a bug: main drops the result of generate_* and returns Ok(())
Exit_ok(status, stage) ==
    /\ pc' = "exited"
    /\ exit_status' = "0"
    /\ failed_stage' = stage

\* the process ends: main returns Err (status 1) or Ok (status 0), clap
\* rejects the command line (status 2)
Exit(status, stage) ==
    /\ pc' = "exited"
    /\ exit_status' = status
    /\ failed_stage' = stage

\* what the process writes when a stage fails: the stage the text speaks of
\* and the run values formatted into it.  error!("Failed to insert batch: {}",
\* e) prints the driver error alone; a connection or scan error is printed by
\* the runtime from the Err that main returns
ErrorMessage(stage) ==
    CASE stage = "usage"             -> [about |-> "usage", args |-> {"number"}]
      [] stage = "validation"        -> [about |-> "validation", args |-> {}]
      [] stage = "connection"        -> [about |-> "connection", args |-> {"e"}]
      [] stage = "reference loading" -> [about |-> "reference loading", args |-> {}]
      [] stage = "batch"             -> [about |-> "batch", args |-> {"e"}]
      [] stage = "password hashing"  -> [about |-> "password hashing", args |-> {"e"}]
      [] stage = "arithmetic overflow" -> [about |-> "arithmetic overflow", args |-> {}]
      [] OTHER                       -> [about |-> "none", args |-> {}]

\* a bug: the quotient is rounded down
NumBatches_floor(c) == c \div batch_size

\* a bug: one batch more than the quotient
NumBatches_plus_one(c) == usize_add(c \div batch_size, 1)

\* let num_batches = (count + batch_size - 1) / batch_size
NumBatches(c) == usize_sub(usize_add(c, batch_size), 1) \div batch_size

\* a bug: every batch is filled to capacity
CurrentBatchSize_full(c, i) == batch_size

\* std::cmp::min(batch_size, count - batch_idx * batch_size)
CurrentBatchSize(c, i) == Min(batch_size, usize_sub(c, usize_mul(i, batch_size)))

\* count + batch_size does not fit the machine word
Overflows(c) == c + batch_size >= UsizeMod

\* what the build does on an arithmetic overflow: TRUE when it checks and
\* panics (debug profile), FALSE when it wraps (release profile)
OverflowChecks(c) == IF Overflows(c) THEN BOOLEAN ELSE {FALSE}

\* ProgressBar::new(count), then the number of batches is computed and the
\* batch loop starts
EnterLoop ==
    \E checked \in OverflowChecks(count) :
        IF checked
        THEN /\ Exit("101", "arithmetic overflow")
             /\ UNCHANGED <<pb_pos, num_batches, batch_idx>>
        ELSE /\ pb_pos' = 0
             /\ num_batches' = NumBatches(count)
             /\ batch_idx' = 0
             /\ pc' = "batch"
             /\ UNCHANGED <<exit_status, failed_stage>>

\* a bug: only a count that does not parse is refused
InvalidCount_negative(n) == n < 0

\* if args.number <= 0
InvalidCount(n) == n <= 0

\* main: Args::parse, setup_logger, the check of args.number
Main ==
    /\ pc = "main"
    /\ IF number < 0
       THEN /\ Exit("2", "usage")
            /\ UNCHANGED count
       ELSE IF InvalidCount(number)
       THEN /\ Exit("1", "validation")
            /\ count' = number
       ELSE /\ pc' = "connect"
            /\ count' = number
            /\ UNCHANGED <<exit_status, failed_stage>>
    /\ UNCHANGED <<entity, number, run, scan_idx, medecin_ids, patient_ids,
                   radiologue_ids, num_batches, batch_idx, current_batch_size,
                   batch, pb_pos, db, next_oid, io, now, rec>>

\* connect_to_mongodb().await?: the client is built and the server pinged
Connect ==
    /\ pc = "connect"
    /\ \E ok \in BOOLEAN :
          /\ io' = Append(io, IoEntry("connect", "admin", EmptyBatch, ok, {}))
          /\ IF ~ok
             THEN /\ Exit("1", "connection")
                  /\ UNCHANGED <<pb_pos, num_batches, batch_idx>>
             ELSE IF HasDeps(entity)
             THEN /\ pc' = "cache_ids"
                  /\ UNCHANGED <<pb_pos, num_batches, batch_idx, exit_status,
                                 failed_stage>>
             ELSE EnterLoop
    /\ UNCHANGED <<entity, number, run, count, scan_idx, medecin_ids,
                   patient_ids, radiologue_ids, current_batch_size, batch, db,
                   next_oid, now, rec>>

\* cache_ids: find(None, None) on the next prerequisite collection and the
\* cursor loop that pushes every _id
CacheIdsScan ==
    /\ pc = "cache_ids"
    /\ scan_idx < Len(ScanOrder(entity))
    /\ LET coll == ScanOrder(entity)[scan_idx + 1]
       IN  \E ok \in BOOLEAN :
              /\ io' = Append(io, IoEntry("find", coll, EmptyBatch, ok,
                                          IF ok THEN db[coll] ELSE {}))
              /\ IF ok
                 THEN /\ scan_idx' = scan_idx + 1
                      /\ medecin_ids' = IF coll = "doctors"
                                        THEN CursorOrder(db[coll]) ELSE medecin_ids
                      /\ patient_ids' = IF coll = "patients"
                                        THEN CursorOrder(db[coll]) ELSE patient_ids
                      /\ radiologue_ids' = IF coll = "radiologues"
                                           THEN CursorOrder(db[coll]) ELSE radiologue_ids
                      /\ UNCHANGED <<pc, exit_status, failed_stage>>
                 ELSE /\ Exit("1", "reference loading")
                      /\ UNCHANGED <<scan_idx, medecin_ids, patient_ids,
                                     radiologue_ids>>
    /\ UNCHANGED <<entity, number, run, count, num_batches, batch_idx,
                   current_batch_size, batch, pb_pos, db, next_oid, now, rec>>

\* the pools cache_ids requires to be non-empty
RequiredPools(e) ==
    CASE e = "ordonnances" -> <<medecin_ids, patient_ids>>
      [] e = "reports"     -> <<patient_ids, radiologue_ids, medecin_ids>>
      [] OTHER             -> <<>>

\* a bug: && in the place of ||
AnyPoolEmpty_all(pools) == \A i \in 1..Len(pools) : pools[i] = <<>>

\* medecin_ids.is_empty() || patient_ids.is_empty() ...
AnyPoolEmpty(pools) == \E i \in 1..Len(pools) : pools[i] = <<>>

\* cache_ids: if ... { return Err(...) }, else Ok with the pools
CacheIdsCheck ==
    /\ pc = "cache_ids"
    /\ scan_idx = Len(ScanOrder(entity))
    /\ IF AnyPoolEmpty(RequiredPools(entity))
       THEN /\ Exit("1", "reference loading")
            /\ UNCHANGED <<pb_pos, num_batches, batch_idx>>
       ELSE EnterLoop
    /\ UNCHANGED <<entity, number, run, count, scan_idx, medecin_ids,
                   patient_ids, radiologue_ids, current_batch_size, batch, db,
                   next_oid, io, now, rec>>

\* the draws that decide the modelled fields of a document
KeyDraws == Draws(entity, medecin_ids, patient_ids, radiologue_ids, {0})

\* the generators that store a password
UsesPassword(e) == e \in {"patients", "medecins", "radiologues"}

\* the results bcrypt::hash can give while one batch is built: TRUE when every
\* call returned Ok, FALSE when one returned Err
HashOutcomes(e, n) == IF UsesPassword(e) /\ n > 0 THEN BOOLEAN ELSE {TRUE}

\* a bug: unwrap_or_default() in the place of the panic, the document is
\* pushed with an empty password
HashPanic_unwrap_or_default ==
    /\ batch' = [len |-> current_batch_size', docs |-> {[password |-> [empty |-> TRUE]]}]
    /\ pc' = "insert_many"
    /\ UNCHANGED <<exit_status, failed_stage>>

\* hash_password: error!("Failed to hash password: ..."), then panic!; the
\* process unwinds with status 101 and the batch is dropped
HashPanic ==
    /\ Exit("101", "password hashing")
    /\ batch' = EmptyBatch

\* the body of the batch loop up to insert_many: current_batch_size
\* documents are synthesized and pushed on a new batch
BuildBatch ==
    /\ pc = "batch"
    /\ batch_idx < num_batches
    /\ current_batch_size' = CurrentBatchSize(count, batch_idx)
    /\ \E hashed \in HashOutcomes(entity, current_batch_size') :
          IF ~hashed
          THEN HashPanic
          ELSE /\ \E R \in SUBSET KeyDraws :
                     /\ Cardinality(R) <= Min(current_batch_size', MaxDistinct)
                     /\ (R = {}) <=> (current_batch_size' = 0)
                     /\ batch' = [len  |-> current_batch_size',
                                  docs |-> {ToDocument(entity,
                                               Synthesize(entity, medecin_ids,
                                                          patient_ids,
                                                          radiologue_ids, now, r)) :
                                            r \in R}]
               /\ pc' = "insert_many"
               /\ UNCHANGED <<exit_status, failed_stage>>
    /\ UNCHANGED <<entity, number, run, count, scan_idx, medecin_ids,
                   patient_ids, radiologue_ids, num_batches, batch_idx, pb_pos,
                   db, next_oid, io, now, rec>>

\* a bug: the progress bar is advanced before the result is matched
InsertFailed_advance ==
    /\ Exit("1", "batch")
    /\ pb_pos' = pb_pos + current_batch_size
    /\ UNCHANGED batch_idx

\* a bug: the error is logged and the loop goes on
InsertFailed_continue ==
    /\ pc' = "batch"
    /\ batch_idx' = batch_idx + 1
    /\ UNCHANGED <<pb_pos, exit_status, failed_stage>>

\* Err(e) => { error!(...); return Err(Box::new(e)); }
InsertFailed ==
    /\ Exit("1", "batch")
    /\ UNCHANGED <<pb_pos, batch_idx>>

\* collection.insert_many(batch, None).await and the match on its result;
\* the batch is moved into the call
InsertMany ==
    /\ pc = "insert_many"
    /\ LET coll == TargetCollection(entity)
       IN  \/ \E short \in 0..Min(MaxPartial, batch.len) :
                LET ids == AssignedIds(batch, batch.len - short, next_oid)
                IN  /\ ~DuplicateKey(batch, coll)
                    /\ db' = [db EXCEPT ![coll] = @ \cup ids]
                    /\ next_oid' = next_oid + (batch.len - short)
                    /\ io' = Append(io, IoEntry("insert_many", coll, batch, TRUE, ids))
                    /\ pb_pos' = pb_pos + current_batch_size
                    /\ batch_idx' = batch_idx + 1
                    /\ pc' = "batch"
                    /\ UNCHANGED <<exit_status, failed_stage>>
           \/ \E applied \in 0..Min(MaxPartial, batch.len - 1) :
                LET ids == IF DuplicateKey(batch, coll) THEN {}
                           ELSE AssignedIds(batch, applied, next_oid)
                IN  /\ db' = [db EXCEPT ![coll] = @ \cup ids]
                    /\ next_oid' = next_oid + applied
                    /\ io' = Append(io, IoEntry("insert_many", coll, batch, FALSE, ids))
                    /\ InsertFailed
    /\ batch' = EmptyBatch
    /\ UNCHANGED <<entity, number, run, count, scan_idx, medecin_ids,
                   patient_ids, radiologue_ids, num_batches, current_batch_size,
                   now, rec>>

\* the loop is over: pb.finish_with_message, info!, Ok(())
Finish ==
    /\ pc = "batch"
    /\ batch_idx >= num_batches
    /\ Exit("0", "none")
    /\ UNCHANGED <<entity, number, run, count, scan_idx, medecin_ids,
                   patient_ids, radiologue_ids, num_batches, batch_idx,
                   current_batch_size, batch, pb_pos, db, next_oid, io, now, rec>>

\* the operator invokes the same command line a second time
Restart ==
    /\ pc = "exited"
    /\ run = 1
    /\ run' = 2
    /\ pc' = "main"
    /\ count' = 0
    /\ scan_idx' = 0
    /\ medecin_ids' = <<>>
    /\ patient_ids' = <<>>
    /\ radiologue_ids' = <<>>
    /\ num_batches' = 0
    /\ batch_idx' = 0
    /\ current_batch_size' = 0
    /\ batch' = EmptyBatch
    /\ pb_pos' = 0
    /\ exit_status' = NoStatus
    /\ failed_stage' = "none"
    /\ io' = <<>>
    /\ UNCHANGED <<entity, number, db, next_oid, now, rec>>

Next ==
    \/ Main
    \/ Connect
    \/ CacheIdsScan
    \/ CacheIdsCheck
    \/ BuildBatch
    \/ InsertMany
    \/ Finish
    \/ Restart

Spec == Init /\ [][Next]_vars

----------------------------------------------------------------------------
(* generate_* called on its own, with any count: the validation of main is  *)
(* not on the path.  Status "0" stands for the result Ok(()), "1" for Err. *)

InitGen ==
    /\ entity \in Entities
    /\ number \in Numbers \ {-1}
    /\ run = 1
    /\ pc = "connect"
    /\ count = number
    /\ scan_idx = 0
    /\ medecin_ids = <<>>
    /\ patient_ids = <<>>
    /\ radiologue_ids = <<>>
    /\ num_batches = 0
    /\ batch_idx = 0
    /\ current_batch_size = 0
    /\ batch = EmptyBatch
    /\ pb_pos = 0
    /\ exit_status = NoStatus
    /\ failed_stage = "none"
    /\ db \in InitDbs(entity)
    /\ next_oid = FirstFreshOid
    /\ io = <<>>
    /\ now = 0
    /\ rec = NoRec

NextGen ==
    \/ Connect
    \/ CacheIdsScan
    \/ CacheIdsCheck
    \/ BuildBatch
    \/ InsertMany
    \/ Finish

SpecGen == InitGen /\ [][NextGen]_vars

\* counts of generate_*: the small ones and the largest of the machine word
WordCounts ==
    (Numbers \ {-1}) \cup {UsizeMod - 1, UsizeMod - (batch_size - 1)}

\* generate_* called with any count a usize can hold
InitWord ==
    /\ entity \in Entities
    /\ number \in WordCounts
    /\ run = 1
    /\ pc = "connect"
    /\ count = number
    /\ scan_idx = 0
    /\ medecin_ids = <<>>
    /\ patient_ids = <<>>
    /\ radiologue_ids = <<>>
    /\ num_batches = 0
    /\ batch_idx = 0
    /\ current_batch_size = 0
    /\ batch = EmptyBatch
    /\ pb_pos = 0
    /\ exit_status = NoStatus
    /\ failed_stage = "none"
    /\ db \in InitDbs(entity)
    /\ next_oid = FirstFreshOid
    /\ io = <<>>
    /\ now = 0
    /\ rec = NoRec

SpecWord == InitWord /\ [][NextGen]_vars

----------------------------------------------------------------------------
(* The synthesizers on their own: pools and clock are drawn, every call     *)
(* synthesizes one record.                                                  *)

\* a pool of n keys of collection c
PoolOf(c, n) == [i \in 1..n |-> CollectionIndex(c) * MaxPool + i]

\* the pools generator e is given: non-empty for each prerequisite
Pools(e) ==
    {[doctors     |-> IF "doctors" \in SeqRange(ScanOrder(e))
                      THEN PoolOf("doctors", n[1]) ELSE <<>>,
      patients    |-> IF "patients" \in SeqRange(ScanOrder(e))
                      THEN PoolOf("patients", n[2]) ELSE <<>>,
      radiologues |-> IF "radiologues" \in SeqRange(ScanOrder(e))
                      THEN PoolOf("radiologues", n[3]) ELSE <<>>] :
     n \in (1..MaxPool) \X (1..MaxPool) \X (1..MaxPool)}

InitSynth ==
    /\ entity \in Entities
    /\ number = 0
    /\ run = 1
    /\ pc = "synth"
    /\ count = 0
    /\ scan_idx = 0
    /\ \E p \in Pools(entity) :
          /\ medecin_ids = p.doctors
          /\ patient_ids = p.patients
          /\ radiologue_ids = p.radiologues
    /\ num_batches = 0
    /\ batch_idx = 0
    /\ current_batch_size = 0
    /\ batch = EmptyBatch
    /\ pb_pos = 0
    /\ exit_status = NoStatus
    /\ failed_stage = "none"
    /\ db = [c \in Collections |-> {}]
    /\ next_oid = FirstFreshOid
    /\ io = <<>>
    /\ now \in 0..MaxNow
    /\ rec = NoRec

\* one call of the synthesizer: Utc::now() is read, the draws are made
SynthesizeRecord ==
    /\ pc = "synth"
    /\ \E r \in Draws(entity, medecin_ids, patient_ids, radiologue_ids,
                      DayDraws(now, Window(entity))) :
          rec' = [at    |-> now,
                  value |-> Synthesize(entity, medecin_ids, patient_ids,
                                       radiologue_ids, now, r)]
    /\ pc' = "synthesized"
    /\ UNCHANGED <<entity, number, run, count, scan_idx, medecin_ids,
                   patient_ids, radiologue_ids, num_batches, batch_idx,
                   current_batch_size, batch, pb_pos, exit_status, failed_stage,
                   db, next_oid, io, now>>

\* time passes between two calls
Tick ==
    /\ pc = "synth"
    /\ now < MaxNow
    /\ now' = now + 1
    /\ UNCHANGED <<entity, number, run, pc, count, scan_idx, medecin_ids,
                   patient_ids, radiologue_ids, num_batches, batch_idx,
                   current_batch_size, batch, pb_pos, exit_status, failed_stage,
                   db, next_oid, io, rec>>

\* the record is handed over; the next call starts afresh
NextCall ==
    /\ pc = "synthesized"
    /\ pc' = "synth"
    /\ rec' = NoRec
    /\ UNCHANGED <<entity, number, run, count, scan_idx, medecin_ids,
                   patient_ids, radiologue_ids, num_batches, batch_idx,
                   current_batch_size, batch, pb_pos, exit_status, failed_stage,
                   db, next_oid, io, now>>

NextSynth ==
    \/ SynthesizeRecord
    \/ Tick
    \/ NextCall

SpecSynth == InitSynth /\ [][NextSynth]_vars

----------------------------------------------------------------------------
(* One invocation next to another generator that runs at the same time on   *)
(* the same database.  The other process is a generator of the same code:   *)
(* its effect on the database is insert_many on its own target collection,  *)
(* which is not the target of this invocation.                              *)

\* the keys of the documents the other generator has inserted; its driver
\* mints them apart from the keys of this invocation
OtherKeys == {k \in UNION {db[c] : c \in Collections} : k < 0}

\* an insert_many of the other generator is applied
OtherInsert ==
    /\ pc # "exited"
    /\ Cardinality(OtherKeys) < MaxOther
    /\ \E c \in Collections \ {TargetCollection(entity)} :
          db' = [db EXCEPT ![c] = @ \cup {-(Cardinality(OtherKeys) + 1)}]
    /\ UNCHANGED <<entity, number, run, pc, count, scan_idx, medecin_ids,
                   patient_ids, radiologue_ids, num_batches, batch_idx,
                   current_batch_size, batch, pb_pos, exit_status, failed_stage,
                   next_oid, io, now, rec>>

NextConc ==
    \/ Main
    \/ Connect
    \/ CacheIdsScan
    \/ CacheIdsCheck
    \/ BuildBatch
    \/ InsertMany
    \/ Finish
    \/ OtherInsert

\* command lines that ask for one batch or for two
InitConc ==
    /\ Init
    /\ number \in {1, batch_size + 1}

SpecConc == InitConc /\ [][NextConc]_vars

----------------------------------------------------------------------------
(* Properties *)

\* the least n with n * b >= a
CeilDiv(a, b) == CHOOSE n \in 0..(a + 1) : (n - 1) * b < a /\ a <= n * b

Target == TargetCollection(entity)

Exited == pc = "exited"

OkInserts == SelectSeq(io, LAMBDA e : e.op = "insert_many" /\ e.ok)

\* C1: the batch loop plans ceil(count / batch_size) batches; every batch
\* submitted holds between 1 and batch_size documents and only the last
\* planned batch may hold fewer than batch_size; when generate_* returns Ok
\* it has submitted ceil(count / batch_size) batches whose sizes sum to count.
C1_BatchPartition ==
    /\ pc \in {"batch", "insert_many"} => num_batches = CeilDiv(count, batch_size)
    /\ pc = "insert_many" => batch.len = current_batch_size
    /\ \A i \in 1..Len(Inserts) :
          /\ Inserts[i].len \in 1..batch_size
          /\ i < num_batches => Inserts[i].len = batch_size
    /\ (Exited /\ exit_status = "0") =>
          /\ Len(Inserts) = CeilDiv(count, batch_size)
          /\ SumLen(Inserts) = count

C1_Witness ==
    /\ Exited
    /\ exit_status = "0"
    /\ Len(Inserts) = 3
    /\ Inserts[3].len = 1
    /\ Inserts[1].len = batch_size

\* C2: once the insert of batch k has failed, that insert is the last
\* storage call of the run: no batch is being built, the process has exited
\* with a status other than 0, and the committed count (the progress
\* position) is the sum of the sizes of batches 1..k-1.
C2_AbortOnFailure ==
    \A k \in 1..Len(Inserts) :
        ~Inserts[k].ok =>
            /\ k = Len(Inserts)
            /\ io[Len(io)] = Inserts[k]
            /\ Exited
            /\ exit_status \notin {"0", NoStatus}
            /\ batch = EmptyBatch
            /\ pb_pos = SumLen(SubSeq(Inserts, 1, k - 1))

C2_Witness ==
    /\ Len(Inserts) = 2
    /\ ~Inserts[2].ok
    /\ num_batches = 3
    /\ pb_pos = batch_size

\* C3: the running total of the run (the progress position) is the sum of
\* the numbers of documents storage reported as inserted by the successful
\* inserts, and a run that ends in success reports that sum as added.
C3_TotalIsReported ==
    /\ pb_pos = SumInserted(OkInserts)
    /\ (Exited /\ exit_status = "0") => count = SumInserted(OkInserts)

\* C4: with an empty prerequisite collection a dependent generator inserts
\* nothing and never builds a batch, whatever the other prerequisite
\* collections hold; once the pools are loaded it has failed in reference
\* loading with a status other than 0.
C4_MissingPrerequisite ==
    (HasDeps(entity) /\ \E c \in SeqRange(ScanOrder(entity)) : db[c] = {}) =>
        /\ Inserts = <<>>
        /\ next_oid = FirstFreshOid
        /\ pc \in {"main", "connect", "cache_ids", "exited"}
        /\ exit_status # "0"
        /\ (scan_idx = Len(ScanOrder(entity)) /\ pc # "cache_ids") =>
              /\ Exited
              /\ exit_status = "1"
              /\ failed_stage = "reference loading"

C4_Witness ==
    /\ entity = "reports"
    /\ Exited
    /\ failed_stage = "reference loading"
    /\ scan_idx = Len(ScanOrder(entity))
    /\ radiologue_ids = <<>>
    /\ patient_ids # <<>>
    /\ medecin_ids # <<>>

\* C5: with a requested count that is not greater than 0 every generator
\* makes no storage call at all (no connection, no scan, no insert) and
\* exits with a status other than 0 naming the argument as the failure.
C5_InvalidCountNoIo ==
    number <= 0 =>
        /\ io = <<>>
        /\ next_oid = FirstFreshOid
        /\ pc \in {"main", "exited"}
        /\ Exited => /\ exit_status \in {"1", "2"}
                     /\ failed_stage \in {"validation", "usage"}

C5_Witness ==
    /\ number = 0
    /\ Exited
    /\ exit_status = "1"
    /\ failed_stage = "validation"
    /\ run = 2

\* the keys cache_ids loaded are the keys of the prerequisite collections
PoolsAreCollections ==
    /\ "doctors" \in SeqRange(ScanOrder(entity)) => SeqRange(medecin_ids) = db["doctors"]
    /\ "patients" \in SeqRange(ScanOrder(entity)) => SeqRange(patient_ids) = db["patients"]
    /\ "radiologues" \in SeqRange(ScanOrder(entity)) =>
          SeqRange(radiologue_ids) = db["radiologues"]

\* C6: every document of a batch handed to insert_many carries in each
\* foreign-key field a key of the pool loaded from the collection of that
\* field's entity type in this run.
C6_ForeignKeysInPool ==
    pc = "insert_many" =>
        /\ PoolsAreCollections
        /\ \A d \in batch.docs :
              /\ "doctor_id" \in DOMAIN d =>
                    d.doctor_id \in SeqRange(medecin_ids) \cap db["doctors"]
              /\ "patient_id" \in DOMAIN d =>
                    d.patient_id \in SeqRange(patient_ids) \cap db["patients"]
              /\ "radiologist_id" \in DOMAIN d =>
                    d.radiologist_id \in SeqRange(radiologue_ids) \cap db["radiologues"]
        /\ entity = "ordonnances" =>
              \A d \in batch.docs : {"doctor_id", "patient_id"} \subseteq DOMAIN d
        /\ entity = "reports" =>
              \A d \in batch.docs :
                  {"doctor_id", "patient_id", "radiologist_id"} \subseteq DOMAIN d

C6_Witness ==
    /\ pc = "insert_many"
    /\ entity = "reports"
    /\ batch.len = batch_size
    /\ batch.docs # {}

ConnectOk == \E i \in 1..Len(io) : io[i].op = "connect" /\ io[i].ok

\* every prerequisite collection was scanned without error and had documents
ReferencesOk ==
    \A j \in 1..Len(ScanOrder(entity)) :
        \E i \in 1..Len(io) :
            /\ io[i].op = "find"
            /\ io[i].coll = ScanOrder(entity)[j]
            /\ io[i].ok
            /\ io[i].ids # {}

AllBatchesOk ==
    /\ Len(Inserts) = CeilDiv(number, batch_size)
    /\ \A i \in 1..Len(Inserts) : Inserts[i].ok

FullySucceeded == number > 0 /\ ConnectOk /\ ReferencesOk /\ AllBatchesOk

\* C7: a run exits with status 0 exactly when the count was valid, the
\* connection was established, every prerequisite collection was loaded and
\* non-empty, and every batch was inserted without error; every other run
\* exits with a status other than 0.
C7_ExitStatus ==
    /\ Exited => /\ exit_status \in {"0", "1", "2", "101"}
                 /\ exit_status = "0" <=> FullySucceeded
    /\ ~Exited => exit_status = NoStatus

C7_Witness ==
    /\ Exited
    /\ exit_status = "0"
    /\ entity = "reports"
    /\ Len(Inserts) = 2
    /\ run = 2

\* C8 as stated: called with count 0, generate_* makes no storage call and
\* returns Ok with committed count 0.
C8_NoStorageCalls ==
    (count = 0 /\ Exited) => (io = <<>> /\ exit_status = "0" /\ pb_pos = 0)

\* C8, amended: called with count 0, generate_* never builds or inserts a
\* batch and assigns no key; its storage calls are the connection and the
\* scans of the prerequisite collections only; its committed count is 0;
\* it returns Ok exactly when the connection and the loading of the
\* references succeeded.
C8_NoBatchForZero ==
    count = 0 =>
        /\ pc # "insert_many"
        /\ batch = EmptyBatch
        /\ \A i \in 1..Len(io) : io[i].op \in {"connect", "find"}
        /\ next_oid = FirstFreshOid
        /\ pb_pos = 0
        /\ Exited =>
              /\ failed_stage \in {"none", "connection", "reference loading"}
              /\ exit_status = "0" <=> (ConnectOk /\ ReferencesOk)

C8_Witness ==
    /\ count = 0
    /\ Exited
    /\ exit_status = "0"
    /\ entity = "ordonnances"
    /\ Len(io) = 3

\* C9: no document handed to insert_many carries a key of its own; every
\* insert_many leaves the documents already in the collection in place and
\* adds exactly as many keys as it reports, none of which was in the
\* collection before; no other step changes a collection.
C9_NoOverwrite ==
    [][/\ \A c \in Collections : db[c] \subseteq db'[c]
       /\ pc # "insert_many" => db' = db
       /\ pc = "insert_many" =>
             /\ \A d \in batch.docs : "_id" \notin DOMAIN d
             /\ io'[Len(io')].ids \cap db[Target] = {}
             /\ db'[Target] = db[Target] \cup io'[Len(io')].ids
             /\ Cardinality(db'[Target]) =
                   Cardinality(db[Target]) + Cardinality(io'[Len(io')].ids)
             /\ \A c \in Collections \ {Target} : db'[c] = db[c]]_vars

\* the second invocation has inserted on top of what the first one inserted
C9_Witness ==
    /\ run = 2
    /\ Exited
    /\ exit_status = "0"
    /\ SumInserted(Inserts) = number
    /\ Cardinality(db[Target]) = MaxInitDocs + 2 * number

\* the window sizes of C10, in days
ClaimedWindow(e) ==
    CASE e = "ordonnances" -> 365
      [] e = "reports"     -> 180
      [] e = "patients"    -> 730
      [] OTHER             -> 1825

\* the date-valued field of a record of generator e
DateOf(e, x) ==
    CASE e = "ordonnances" -> x.date
      [] e = "reports"     -> x.exam_date
      [] OTHER             -> x.dateInscription

\* C10: the date written in a synthesized record denotes an instant between
\* W days before the clock reading of that synthesis and that reading, both
\* included.
C10_DateInWindow ==
    pc = "synthesized" =>
        LET t == parse_from_rfc3339(DateOf(entity, rec.value))
        IN  /\ rec.at - ClaimedWindow(entity) * TicksPerDay <= t
            /\ t <= rec.at

\* the oldest date of the window is drawn
C10_Witness ==
    /\ pc = "synthesized"
    /\ entity = "medecins"
    /\ rec.at = MaxNow
    /\ parse_from_rfc3339(DateOf(entity, rec.value)) = rec.at - 1825 * TicksPerDay

\* the stored form of a password: the bcrypt hash, never the clear text
Hashed(d) == d.password = [bcrypt |-> "password"]

\* C11: when password hashing fails while a batch of patients, doctors or
\* radiologists is built, the process has terminated with a status other than
\* 0, the batch in construction was dropped and never submitted (the inserts
\* of the run are the batches completed before it, all successful), and every
\* document handed to insert_many carries a hashed password.
C11_HashFailureTerminates ==
    /\ failed_stage = "password hashing" =>
          /\ UsesPassword(entity)
          /\ Exited
          /\ exit_status \notin {"0", NoStatus}
          /\ batch = EmptyBatch
          /\ Len(Inserts) = batch_idx
          /\ batch_idx < CeilDiv(count, batch_size)
          /\ \A i \in 1..Len(Inserts) : Inserts[i].ok
    /\ (pc = "insert_many" /\ UsesPassword(entity)) =>
          \A d \in batch.docs : "password" \in DOMAIN d /\ Hashed(d)

\* hashing failed while the second batch was built
C11_Witness ==
    /\ failed_stage = "password hashing"
    /\ entity = "patients"
    /\ Len(Inserts) = 1
    /\ num_batches = 3

\* C12: a run that has exited with a status other than 0 has written a
\* message about the stage that failed, and when that stage is a batch insert
\* the message carries the index of the failing batch and the number of
\* batches.
C12_FailureMessage ==
    (Exited /\ exit_status # "0") =>
        LET m == ErrorMessage(failed_stage)
        IN  /\ failed_stage # "none"
            /\ m.about = failed_stage
            /\ failed_stage = "batch" =>
                  {"batch_idx + 1", "num_batches"} \subseteq m.args

\* the stages of C13 as positions of the invocation: Validating (1),
\* Connecting (2), LoadingReferences (3), Writing (4), Completed or Failed (5)
StageRank(p) ==
    CASE p = "main"        -> 1
      [] p = "connect"     -> 2
      [] p = "cache_ids"   -> 3
      [] p = "batch"       -> 4
      [] p = "insert_many" -> 4
      [] p = "exited"      -> 5

\* the entities C13 calls dependent
Dependent == entity \in {"ordonnances", "reports"}

\* the storage calls of an invocation are in stage order
IoInStageOrder ==
    \A i \in 1..Len(io) :
        /\ (io[i].op = "connect") <=> (i = 1)
        /\ i > 1 => io[1].ok
        /\ io[i].op = "find" =>
              /\ Dependent
              /\ \A k \in 1..(i - 1) :
                    /\ io[k].op # "insert_many"
                    /\ io[k].op = "find" => io[k].ok /\ io[k].coll # io[i].coll
        /\ io[i].op = "insert_many" =>
              \A c \in SeqRange(ScanOrder(entity)) :
                  \E k \in 1..(i - 1) :
                      /\ io[k].op = "find"
                      /\ io[k].coll = c
                      /\ io[k].ok
                      /\ io[k].ids # {}
        /\ (io[i].op = "insert_many" /\ Dependent) =>
              \E k \in 1..(i - 1) : io[k].op = "find"

\* C13: within one invocation the position only moves forward through
\* Validating, Connecting, LoadingReferences (dependent entities only),
\* Writing and the exit; Connecting is entered once, from Validating;
\* LoadingReferences only from Connecting; Writing only from
\* LoadingReferences (dependent entities) or from Connecting (the others);
\* nothing follows the exit; and no scan or insert precedes a successful
\* connection, no insert precedes the successful, non-empty scan of every
\* prerequisite collection, no collection is scanned twice.
C13_StageOrder ==
    [][/\ run' = run =>
             /\ StageRank(pc') >= StageRank(pc)
             /\ pc # "exited"
             /\ pc' = "connect" => pc = "main"
             /\ (pc' = "cache_ids" /\ pc # "cache_ids") =>
                   pc = "connect" /\ Dependent
             /\ (StageRank(pc') = 4 /\ StageRank(pc) # 4) =>
                   pc = IF Dependent THEN "cache_ids" ELSE "connect"
             /\ (StageRank(pc) = 4 /\ pc' # "exited") =>
                   pc' = IF pc = "batch" THEN "insert_many" ELSE "batch"
       /\ run' # run => pc = "exited" /\ pc' = "main" /\ io' = <<>>
       /\ IoInStageOrder']_vars

\* a report run in its second batch, after the connection and three scans
C13_Witness ==
    /\ entity = "reports"
    /\ pc = "insert_many"
    /\ Len(io) = 5
    /\ batch_idx = 1

\* C14: while an insert_many request is outstanding it is the only one: every
\* earlier batch of the run has its result and that result is success, and
\* the batch submitted holds all of its min(batch_size, remaining) records;
\* while no request is outstanding no batch is held, and the next batch is
\* built only when the results of all earlier batches are known.
C14_Sequential ==
    /\ pc = "insert_many" =>
          /\ Len(Inserts) = batch_idx
          /\ \A i \in 1..Len(Inserts) : Inserts[i].ok
          /\ batch.len = Min(batch_size, count - batch_idx * batch_size)
          /\ batch.len > 0
          /\ batch.docs # {}
    /\ pc # "insert_many" => batch = EmptyBatch
    /\ pc = "batch" =>
          /\ Len(Inserts) = batch_idx
          /\ \A i \in 1..Len(Inserts) : Inserts[i].ok
          /\ SumLen(Inserts) = Min(count, batch_idx * batch_size)

\* the third, short batch of a run is outstanding
C14_Witness ==
    /\ pc = "insert_many"
    /\ batch_idx = 2
    /\ count = 2 * batch_size + 1
    /\ batch.len = 1

\* the pool loaded from prerequisite collection c
PoolFor(c) ==
    CASE c = "doctors"     -> medecin_ids
      [] c = "patients"    -> patient_ids
      [] c = "radiologues" -> radiologue_ids

\* the positions in io of the scans of collection c
ScansOf(c) == {i \in 1..Len(io) : io[i].op = "find" /\ io[i].coll = c}

\* the keys a document refers to in collection c
RefsTo(d, c) ==
    CASE c = "doctors"     -> {d.doctor_id}
      [] c = "patients"    -> {d.patient_id}
      [] c = "radiologues" -> {d.radiologist_id}

\* C15: a dependent generator scans each prerequisite collection at most
\* once, exactly once before it writes, and never after an insert; from the
\* scan on, whatever another generator adds to the collection, the pool
\* holds exactly the keys the collection had when it was scanned, each once,
\* and the documents of every batch refer to those keys only.
C15_OneShotCache ==
    /\ \A c \in Collections : Cardinality(ScansOf(c)) <= 1
    /\ \A i \in 1..Len(io) : \A j \in 1..Len(io) :
          (io[i].op = "insert_many" /\ io[j].op = "find") => j < i
    /\ \A c \in SeqRange(ScanOrder(entity)) :
          /\ pc \in {"batch", "insert_many"} => Cardinality(ScansOf(c)) = 1
          /\ \A i \in ScansOf(c) :
                io[i].ok =>
                   /\ SeqRange(PoolFor(c)) = io[i].ids
                   /\ Len(PoolFor(c)) = Cardinality(io[i].ids)
                   /\ io[i].ids \subseteq db[c]
          /\ pc = "insert_many" =>
                \A d \in batch.docs : \A i \in ScansOf(c) :
                    /\ RefsTo(d, c) \subseteq io[i].ids
                    /\ RefsTo(d, c) \cap (db[c] \ io[i].ids) = {}

\* a doctor was added after the scan, a batch of prescriptions is submitted
C15_Witness ==
    /\ entity = "ordonnances"
    /\ pc = "insert_many"
    /\ batch.docs # {}
    /\ OtherKeys # {}
    /\ OtherKeys \subseteq db["doctors"]
    /\ SeqRange(medecin_ids) # db["doctors"]

\* the keys this invocation has inserted, by the results of its insert_many
OwnKeys == UNION {Inserts[i].ids : i \in 1..Len(Inserts)}

\* the keys a collection held before the run
InitialKeys(c) == {k \in db[c] : 0 < k /\ k < FirstFreshOid}

\* each collection holds what it held before the run and what its own
\* generator inserted
EachCollectionItsOwn ==
    \A c \in Collections :
        /\ db[c] = InitialKeys(c) \cup (IF c = Target THEN OwnKeys
                                         ELSE OtherKeys \cap db[c])
        /\ c = Target => db[c] \cap OtherKeys = {}
        /\ c # Target => db[c] \cap OwnKeys = {}

\* C16: a step of the invocation changes at most one collection, never a
\* collection it scans, and only by adding the keys its insert_many
\* returned; a step of the other generator leaves the target of this
\* invocation alone; so in every interleaving each collection holds its
\* initial documents and those of its own generator, nothing else.
C16_Isolation ==
    [][/\ (pc' # pc \/ io' # io) =>
             /\ \A c \in SeqRange(ScanOrder(entity)) : db'[c] = db[c]
             /\ Cardinality({c \in Collections : db'[c] # db[c]}) <= 1
             /\ \A c \in Collections :
                   db'[c] # db[c] =>
                      /\ pc = "insert_many"
                      /\ db'[c] = db[c] \cup io'[Len(io')].ids
       /\ (pc' = pc /\ io' = io) => db'[Target] = db[Target]
       /\ EachCollectionItsOwn']_vars

\* patients were generated in two batches while the generator of the
\* radiologists, which has no dependency with it, inserted a document
C16_Witness ==
    /\ entity = "patients"
    /\ Exited
    /\ exit_status = "0"
    /\ Len(Inserts) = 2
    /\ OtherKeys # {}
    /\ OtherKeys \subseteq db["radiologues"]
    /\ Cardinality(db["patients"]) = MaxInitDocs + SumInserted(Inserts)

\* the dates a call of the synthesizer of generator e at instant t can write
ProducibleDates(e, t) ==
    {random_date(t, Window(e), k) : k \in DayDraws(t, Window(e))}

\* C17: for a window of W days, a call of the synthesizer can produce the
\* date at every day offset 0, 1, ..., W from the start of the window: the
\* start of the window (now - W days) and its end (now) included.
C17_OffsetsInclusive ==
    pc = "synth" =>
        LET W == ClaimedWindow(entity)
        IN  \A k \in 0..W :
                to_rfc3339((now - Duration_days(W)) + Duration_days(k))
                    \in ProducibleDates(entity, now)

\* C18: the position of the progress bar is the sum of the sizes of the
\* batches inserted with success so far and never exceeds the requested
\* count; a run with a valid count ends with the position at the count
\* exactly when it ends with status 0; and the batches submitted are those
\* the count alone prescribes.
C18_Progress ==
    /\ pb_pos = SumLen(OkInserts)
    /\ pb_pos <= count
    /\ (Exited /\ number > 0) => ((pb_pos = count) <=> (exit_status = "0"))
    /\ \A i \in 1..Len(Inserts) :
          Inserts[i].len = Min(batch_size, count - (i - 1) * batch_size)

\* the third batch failed after two full batches
C18_Witness ==
    /\ Exited
    /\ failed_stage = "batch"
    /\ Len(OkInserts) = 2
    /\ Len(Inserts) = 3
    /\ pb_pos = 2 * batch_size
    /\ count = 2 * batch_size + 1

\* C19: every index create_indexes defines is on a collection that a
\* generator inserts into and on a field of the documents that generator
\* builds; in particular the indexes on the target of the running generator
\* are on fields of the documents of the batch it submits.
C19_IndexesMatchDocuments ==
    /\ \A ix \in IndexModels :
          \E e \in Entities :
              /\ TargetCollection(e) = ix.collection
              /\ ix.key \in DocumentFields(e)
    /\ pc = "insert_many" =>
          /\ \A d \in batch.docs : DOMAIN d \subseteq DocumentFields(entity)
          /\ \A ix \in IndexModels :
                ix.collection = Target => ix.key \in DocumentFields(entity)

\* C20: for every count of the machine word, those within batch_size - 1 of
\* the largest included, the number of batches computed is
\* ceil(count / batch_size) and the size of each batch is
\* min(batch_size, remaining): the computation never fails, and Ok is returned
\* only when count records were submitted.
C20_WordArithmetic ==
    /\ failed_stage # "arithmetic overflow"
    /\ pc \in {"batch", "insert_many"} =>
          num_batches = CeilDiv(count, batch_size)
    /\ pc = "insert_many" =>
          current_batch_size = Min(batch_size, count - batch_idx * batch_size)
    /\ (Exited /\ exit_status = "0") => SumLen(Inserts) = count

====
